---- MODULE Spec2Model ----
(***************************************************************************)
(* A model of the terminal Tetris of src/src/main.rs: the piece catalogue, *)
(* the active piece, the board (collision, locking, line clearing) and the *)
(* game engine with the event dispatch of main.                            *)
(*                                                                         *)
(* Time is kept as `elapsed`, the milliseconds since last_drop_instant,    *)
(* saturated at the largest gravity interval; start_time is only displayed *)
(* and is left out.  The random generator is an input of every operation   *)
(* that draws from it.                                                     *)
(***************************************************************************)
EXTENDS Integers, Sequences, FiniteSets, TLC

VARIABLES
    board,             \* Game.board: board[y][x], a kind or None
    current,           \* Game.current: [kind, rotation, x, y]
    next,              \* Game.next
    score,             \* Game.score
    level,             \* Game.level
    lines_cleared,     \* Game.lines_cleared
    paused,            \* Game.paused
    game_over,         \* Game.game_over
    gravity_interval,  \* Game.gravity_interval, in ms
    elapsed,           \* ms since Game.last_drop_instant (saturating)
    locks,             \* history: locks of the game under exploration
    soft_drops,        \* history: soft-drop points of the game under exploration
    lock_log,          \* history: what the last lock_piece call saw and did
    fn,                \* unit specifications: the function under test
    arg,               \* unit specifications: its input
    ret,               \* unit specifications: [done, val], val its result
    queue,             \* main: the events sent on the channel and not yet received
    pc,                \* main: where the game loop stands
    did_quit,          \* main: did_quit
    terminal,          \* main: "raw" from enable_raw_mode to the cleanup
    input_asleep,      \* input thread: in its thread::sleep
    tick_asleep,       \* tick thread: in its thread::sleep
    wakes              \* producer sleeps that ended during the present drain

vars == <<board, current, next, score, level, lines_cleared, paused, game_over,
          gravity_interval, elapsed, locks, soft_drops, lock_log, fn, arg, ret,
          queue, pc, did_quit, terminal, input_asleep, tick_asleep, wakes>>

gameVars == <<board, current, next, score, level, lines_cleared, paused,
              game_over, gravity_interval, elapsed>>

histVars == <<locks, soft_drops, lock_log>>

unitVars == <<fn, arg, ret>>

loopVars == <<queue, pc, did_quit, terminal, input_asleep, tick_asleep, wakes>>

----------------------------------------------------------------------------
(* Board dimensions and the piece catalogue *)

BOARD_WIDTH == 10

BOARD_HEIGHT == 20

\* Option::None of a board cell
None == "None"

\* BlockType::all(), in the order of the source
AllKinds == <<"I", "O", "T", "S", "Z", "J", "L">>

BlockType == {AllKinds[i] : i \in 1..Len(AllKinds)}

\* Tetromino::new(kind).rotations: each rotation a 4x4 grid, row-major
rotations(kind) ==
    CASE kind = "I" -> << <<0,0,0,0, 1,1,1,1, 0,0,0,0, 0,0,0,0>>,
                          <<0,0,1,0, 0,0,1,0, 0,0,1,0, 0,0,1,0>> >>
      [] kind = "O" -> << <<0,1,1,0, 0,1,1,0, 0,0,0,0, 0,0,0,0>> >>
      [] kind = "T" -> << <<0,1,0,0, 1,1,1,0, 0,0,0,0, 0,0,0,0>>,
                          <<0,1,0,0, 0,1,1,0, 0,1,0,0, 0,0,0,0>>,
                          <<0,0,0,0, 1,1,1,0, 0,1,0,0, 0,0,0,0>>,
                          <<0,1,0,0, 1,1,0,0, 0,1,0,0, 0,0,0,0>> >>
      [] kind = "S" -> << <<0,1,1,0, 1,1,0,0, 0,0,0,0, 0,0,0,0>>,
                          <<0,1,0,0, 0,1,1,0, 0,0,1,0, 0,0,0,0>> >>
      [] kind = "Z" -> << <<1,1,0,0, 0,1,1,0, 0,0,0,0, 0,0,0,0>>,
                          <<0,0,1,0, 0,1,1,0, 0,1,0,0, 0,0,0,0>> >>
      [] kind = "J" -> << <<1,0,0,0, 1,1,1,0, 0,0,0,0, 0,0,0,0>>,
                          <<0,1,1,0, 0,1,0,0, 0,1,0,0, 0,0,0,0>>,
                          <<0,0,0,0, 1,1,1,0, 0,0,1,0, 0,0,0,0>>,
                          <<0,1,0,0, 0,1,0,0, 1,1,0,0, 0,0,0,0>> >>
      [] kind = "L" -> << <<0,0,1,0, 1,1,1,0, 0,0,0,0, 0,0,0,0>>,
                          <<0,1,0,0, 0,1,0,0, 0,1,1,0, 0,0,0,0>>,
                          <<0,0,0,0, 1,1,1,0, 1,0,0,0, 0,0,0,0>>,
                          <<1,1,0,0, 0,1,0,0, 0,1,0,0, 0,0,0,0>> >>

\* ActivePiece::new: rotation 0, x = BOARD_WIDTH / 2 - 2, y = -1
ActivePiece_new(kind) ==
    [kind |-> kind, rotation |-> 0, x |-> (BOARD_WIDTH \div 2) - 2, y |-> 0 - 1]

\* the loops of ActivePiece::cells over one grid: the offsets <<bx, by>> of
\* its set entries, in scan order (by outer, bx inner)
grid_cells(grid) ==
    LET on == SelectSeq([i \in 1..16 |-> i - 1], LAMBDA i : grid[i + 1] # 0)
    IN  [j \in 1..Len(on) |-> <<on[j] % 4, on[j] \div 4>>]

\* the offsets of every kind's rotations, scanned once
Offsets ==
    [kind \in BlockType |->
        [r \in 1..Len(rotations(kind)) |-> grid_cells(rotations(kind)[r])]]

\* ActivePiece::cells: the occupied board coordinates <<x, y>>, in scan order
cells(piece) ==
    LET rots == Offsets[piece.kind]
        off  == rots[(piece.rotation % Len(rots)) + 1]
    IN  [j \in 1..Len(off) |-> <<piece.x + off[j][1], piece.y + off[j][2]>>]

\* ActivePiece::rotate_cw
ActivePiece_rotate_cw(piece) ==
    [piece EXCEPT !.rotation = (piece.rotation + 1) % Len(rotations(piece.kind))]

\* ActivePiece::rotate_ccw, had it wrapped from 0 to the number of rotations
ActivePiece_rotate_ccw_to_len(piece) ==
    IF piece.rotation = 0
    THEN [piece EXCEPT !.rotation = Len(rotations(piece.kind))]
    ELSE [piece EXCEPT !.rotation = piece.rotation - 1]

\* ActivePiece::rotate_ccw
ActivePiece_rotate_ccw(piece) ==
    IF piece.rotation = 0
    THEN [piece EXCEPT !.rotation = Len(rotations(piece.kind)) - 1]
    ELSE [piece EXCEPT !.rotation = piece.rotation - 1]

----------------------------------------------------------------------------
(* The engine: every operation maps a Game record to the Game record the   *)
(* method leaves behind.  `k` is the kind the random generator returns.    *)

EmptyRow == [x \in 0..(BOARD_WIDTH - 1) |-> None]

EmptyBoard == [y \in 0..(BOARD_HEIGHT - 1) |-> EmptyRow]

Max(a, b) == IF a >= b THEN a ELSE b

\* interval_for_level, had it capped at the 50 ms its comment names
interval_for_level_cap_50(lv) ==
    LET base_ms == 700
        ms      == base_ms - ((lv - 1) * 50)
    IN  Max(ms, 50)

\* Game::interval_for_level, in ms
interval_for_level(lv) ==
    LET base_ms == 700
        ms      == base_ms - ((lv - 1) * 50)
    IN  Max(ms, 60)

\* Game::new; k_next is drawn first, k_current second
Game_new(k_next, k_current) ==
    [ board            |-> EmptyBoard,
      current          |-> ActivePiece_new(k_current),
      next             |-> k_next,
      score            |-> 0,
      level            |-> 1,
      lines_cleared    |-> 0,
      paused           |-> FALSE,
      game_over        |-> FALSE,
      elapsed          |-> 0,
      gravity_interval |-> interval_for_level(1) ]

RECURSIVE collision_scan(_, _, _, _, _)
\* the loop of Game::check_collision from cell i on, with its early returns
collision_scan(b, cs, i, dx, dy) ==
    IF i > Len(cs) THEN FALSE
    ELSE LET nx == cs[i][1] + dx
             ny == cs[i][2] + dy
         IN  IF nx < 0 \/ nx >= BOARD_WIDTH THEN TRUE
             ELSE IF ny >= BOARD_HEIGHT THEN TRUE
             ELSE IF ny >= 0 /\ b[ny][nx] # None THEN TRUE
             ELSE collision_scan(b, cs, i + 1, dx, dy)

\* check_collision, had it ignored the horizontal shift
check_collision_unshifted(b, piece, dx, dy) ==
    collision_scan(b, cells(piece), 1, 0, dy)

\* Game::check_collision on board b
check_collision(b, piece, dx, dy) == collision_scan(b, cells(piece), 1, dx, dy)

RECURSIVE write_scan_below_top(_, _, _, _)
\* the storing loop, had it required y > 0
write_scan_below_top(b, kind, cs, i) ==
    IF i > Len(cs) THEN b
    ELSE LET x == cs[i][1]
             y == cs[i][2]
         IN  IF y > 0 /\ y < BOARD_HEIGHT /\ x >= 0 /\ x < BOARD_WIDTH
             THEN write_scan_below_top([b EXCEPT ![y][x] = kind], kind, cs, i + 1)
             ELSE write_scan_below_top(b, kind, cs, i + 1)

RECURSIVE write_scan(_, _, _, _)
\* the loop of Game::lock_piece that stores the piece's cells, from cell i on
write_scan(b, kind, cs, i) ==
    IF i > Len(cs) THEN b
    ELSE LET x == cs[i][1]
             y == cs[i][2]
         IN  IF y >= 0 /\ y < BOARD_HEIGHT /\ x >= 0 /\ x < BOARD_WIDTH
             THEN write_scan([b EXCEPT ![y][x] = kind], kind, cs, i + 1)
             ELSE write_scan(b, kind, cs, i + 1)

\* the first half of Game::lock_piece: the board with the piece stored
write_piece(b, piece) == write_scan(b, piece.kind, cells(piece), 1)

\* the inner loop, had it looked at the first cell only
row_full_first_cell(b, y) == b[y][0] # None

\* the inner loop of Game::clear_full_lines: no cell of row y is None
row_full(b, y) == \A x \in 0..(BOARD_WIDTH - 1) : b[y][x] # None

RECURSIVE clear_scan_one_row(_, _, _)
\* the outer loop, had it removed the lowest full row only
clear_scan_one_row(b, y, acc) ==
    IF y < 0 THEN acc
    ELSE IF ~row_full(b, y) \/ acc.removed > 0
         THEN clear_scan_one_row(b, y - 1,
                  [ new_board |-> [acc.new_board EXCEPT ![acc.new_row] = b[y]],
                    new_row   |-> acc.new_row - 1,
                    removed   |-> acc.removed ])
         ELSE clear_scan_one_row(b, y - 1, [acc EXCEPT !.removed = acc.removed + 1])

RECURSIVE clear_scan(_, _, _)
\* the outer loop of Game::clear_full_lines, y running from the bottom row up
clear_scan(b, y, acc) ==
    IF y < 0 THEN acc
    ELSE IF ~row_full(b, y)
         THEN clear_scan(b, y - 1,
                  [ new_board |-> [acc.new_board EXCEPT ![acc.new_row] = b[y]],
                    new_row   |-> acc.new_row - 1,
                    removed   |-> acc.removed ])
         ELSE clear_scan(b, y - 1, [acc EXCEPT !.removed = acc.removed + 1])

\* the match of Game::clear_full_lines
points_for(removed) ==
    CASE removed = 1 -> 100
      [] removed = 2 -> 300
      [] removed = 3 -> 500
      [] OTHER       -> 800

\* clear_full_lines, had it multiplied the points by the level after the clear
clear_full_lines_new_level(g) ==
    LET r == clear_scan(g.board, BOARD_HEIGHT - 1,
                 [new_board |-> EmptyBoard, new_row |-> BOARD_HEIGHT - 1, removed |-> 0])
        removed   == r.removed
        new_lines == g.lines_cleared + removed
        new_level == (new_lines \div 10) + 1
        points    == points_for(removed) * new_level
    IN  IF removed > 0
        THEN [g EXCEPT !.score = g.score + points,
                       !.lines_cleared = new_lines,
                       !.level = new_level,
                       !.gravity_interval =
                           IF new_level # g.level
                           THEN interval_for_level(new_level)
                           ELSE g.gravity_interval,
                       !.board = r.new_board]
        ELSE g

\* clear_full_lines, had it derived the level from the lines before the clear
clear_full_lines_old_lines(g) ==
    LET r == clear_scan(g.board, BOARD_HEIGHT - 1,
                 [new_board |-> EmptyBoard, new_row |-> BOARD_HEIGHT - 1, removed |-> 0])
        removed   == r.removed
        points    == points_for(removed) * g.level
        new_lines == g.lines_cleared + removed
        new_level == (g.lines_cleared \div 10) + 1
    IN  IF removed > 0
        THEN [g EXCEPT !.score = g.score + points,
                       !.lines_cleared = new_lines,
                       !.level = new_level,
                       !.gravity_interval =
                           IF new_level # g.level
                           THEN interval_for_level(new_level)
                           ELSE g.gravity_interval,
                       !.board = r.new_board]
        ELSE g

\* clear_full_lines, had it kept the gravity interval on a level change
clear_full_lines_stale_interval(g) ==
    LET r == clear_scan(g.board, BOARD_HEIGHT - 1,
                 [new_board |-> EmptyBoard, new_row |-> BOARD_HEIGHT - 1, removed |-> 0])
        removed   == r.removed
        points    == points_for(removed) * g.level
        new_lines == g.lines_cleared + removed
        new_level == (new_lines \div 10) + 1
    IN  IF removed > 0
        THEN [g EXCEPT !.score = g.score + points,
                       !.lines_cleared = new_lines,
                       !.level = new_level,
                       !.board = r.new_board]
        ELSE g

\* clear_full_lines, had it derived the level from the rows of this clear alone
clear_full_lines_level_of_removed(g) ==
    LET r == clear_scan(g.board, BOARD_HEIGHT - 1,
                 [new_board |-> EmptyBoard, new_row |-> BOARD_HEIGHT - 1, removed |-> 0])
        removed   == r.removed
        points    == points_for(removed) * g.level
        new_lines == g.lines_cleared + removed
        new_level == (removed \div 10) + 1
    IN  IF removed > 0
        THEN [g EXCEPT !.score = g.score + points,
                       !.lines_cleared = new_lines,
                       !.level = new_level,
                       !.gravity_interval =
                           IF new_level # g.level
                           THEN interval_for_level(new_level)
                           ELSE g.gravity_interval,
                       !.board = r.new_board]
        ELSE g

\* Game::clear_full_lines
clear_full_lines(g) ==
    LET r == clear_scan(g.board, BOARD_HEIGHT - 1,
                 [new_board |-> EmptyBoard, new_row |-> BOARD_HEIGHT - 1, removed |-> 0])
        removed   == r.removed
        points    == points_for(removed) * g.level
        new_lines == g.lines_cleared + removed
        new_level == (new_lines \div 10) + 1
    IN  IF removed > 0
        THEN [g EXCEPT !.score = g.score + points,
                       !.lines_cleared = new_lines,
                       !.level = new_level,
                       !.gravity_interval =
                           IF new_level # g.level
                           THEN interval_for_level(new_level)
                           ELSE g.gravity_interval,
                       !.board = r.new_board]
        ELSE g

\* spawn_next, had it made the drawn kind the active piece and kept next
spawn_next_draws_current(g, k) ==
    LET piece == ActivePiece_new(k)
    IN  [g EXCEPT !.current = piece,
                  !.game_over = IF check_collision(g.board, piece, 0, 0)
                                THEN TRUE ELSE g.game_over]

\* spawn_next, had it never ended the game
spawn_next_no_end(g, k) ==
    [g EXCEPT !.current = ActivePiece_new(g.next), !.next = k]

\* Game::spawn_next
spawn_next(g, k) ==
    LET piece == ActivePiece_new(g.next)
    IN  [g EXCEPT !.current = piece,
                  !.next = k,
                  !.game_over = IF check_collision(g.board, piece, 0, 0)
                                THEN TRUE ELSE g.game_over]

\* Game::lock_piece
lock_piece(g, k) ==
    LET written == [g EXCEPT !.board = write_piece(g.board, g.current)]
        cleared == clear_full_lines(written)
        spawned == spawn_next(cleared, k)
    IN  [spawned EXCEPT !.elapsed = 0]

RECURSIVE drop_scan(_, _)
\* the while loop of Game::hard_drop
drop_scan(b, piece) ==
    IF ~check_collision(b, piece, 0, 1)
    THEN drop_scan(b, [piece EXCEPT !.y = piece.y + 1])
    ELSE piece

\* hard_drop, had it paid one point for every row descended
hard_drop_paid(g, k) ==
    LET landed == drop_scan(g.board, g.current)
    IN  lock_piece([g EXCEPT !.current = landed,
                             !.score = g.score + (landed.y - g.current.y)], k)

\* Game::hard_drop
hard_drop(g, k) == lock_piece([g EXCEPT !.current = drop_scan(g.board, g.current)], k)

\* step, had it returned early only when paused
step_while_over(g, k) ==
    IF g.paused THEN g
    ELSE IF g.elapsed >= g.gravity_interval
         THEN LET moved == IF ~check_collision(g.board, g.current, 0, 1)
                           THEN [g EXCEPT !.current.y = g.current.y + 1]
                           ELSE lock_piece(g, k)
              IN  [moved EXCEPT !.elapsed = 0]
         ELSE g

\* step, had it left the drop timer running after a descent
step_keeps_timer(g, k) ==
    IF g.paused \/ g.game_over THEN g
    ELSE IF g.elapsed >= g.gravity_interval
         THEN IF ~check_collision(g.board, g.current, 0, 1)
              THEN [g EXCEPT !.current.y = g.current.y + 1]
              ELSE lock_piece(g, k)
         ELSE g

\* Game::step
step(g, k) ==
    IF g.paused \/ g.game_over THEN g
    ELSE IF g.elapsed >= g.gravity_interval
         THEN LET moved == IF ~check_collision(g.board, g.current, 0, 1)
                           THEN [g EXCEPT !.current.y = g.current.y + 1]
                           ELSE lock_piece(g, k)
              IN  [moved EXCEPT !.elapsed = 0]
         ELSE g

\* Game::move_left, had it shifted without asking check_collision
move_left_unchecked(g) ==
    [g EXCEPT !.current.x = g.current.x - 1]

\* Game::move_left
move_left(g) ==
    IF ~check_collision(g.board, g.current, 0 - 1, 0)
    THEN [g EXCEPT !.current.x = g.current.x - 1]
    ELSE g

\* move_right, had it kept the collision test of move_left
move_right_tests_left(g) ==
    IF ~check_collision(g.board, g.current, 0 - 1, 0)
    THEN [g EXCEPT !.current.x = g.current.x + 1]
    ELSE g

\* Game::move_right
move_right(g) ==
    IF ~check_collision(g.board, g.current, 1, 0)
    THEN [g EXCEPT !.current.x = g.current.x + 1]
    ELSE g

\* move_down, had it paid the soft-drop point on the blocked descent as well
move_down_paid_lock(g, k) ==
    IF ~check_collision(g.board, g.current, 0, 1)
    THEN [g EXCEPT !.current.y = g.current.y + 1, !.score = g.score + 1]
    ELSE lock_piece([g EXCEPT !.score = g.score + 1], k)

\* Game::move_down
move_down(g, k) ==
    IF ~check_collision(g.board, g.current, 0, 1)
    THEN [g EXCEPT !.current.y = g.current.y + 1, !.score = g.score + 1]
    ELSE lock_piece(g, k)

\* the wall kicks, had the shift to the right been tried before the one to the left
kicks_right_first == << <<0, 0>>, <<1, 0>>, <<0 - 1, 0>>, <<0, 0 - 1>> >>

\* the wall kicks of Game::rotate_cw and Game::rotate_ccw, in trial order
kicks == << <<0, 0>>, <<0 - 1, 0>>, <<1, 0>>, <<0, 0 - 1>> >>

RECURSIVE kick_scan(_, _, _)
\* the for loop over kicks: commit the first offset that does not collide
kick_scan(g, test, i) ==
    IF i > Len(kicks) THEN g
    ELSE IF ~check_collision(g.board, test, kicks[i][1], kicks[i][2])
         THEN [g EXCEPT !.current = [test EXCEPT !.x = test.x + kicks[i][1],
                                                 !.y = test.y + kicks[i][2]]]
         ELSE kick_scan(g, test, i + 1)

\* Game::rotate_cw
rotate_cw(g) == kick_scan(g, ActivePiece_rotate_cw(g.current), 1)

\* Game::rotate_ccw
rotate_ccw(g) == kick_scan(g, ActivePiece_rotate_ccw(g.current), 1)

\* reset, had it rebuilt the game but kept the pause flag
reset_keeps_pause(g, k_next, k_current) ==
    [Game_new(k_next, k_current) EXCEPT !.paused = g.paused]

\* Game::reset
reset(g, k_next, k_current) == Game_new(k_next, k_current)

----------------------------------------------------------------------------
(* Bounds of the exploration *)

\* pieces played (locked) in one explored game
MaxLocks == 1

\* soft-drop points awarded in one explored game
MaxSoft == 1

\* ms by which one TimePasses step advances the clock
ClockStep == 350

\* the kinds the random generator returns during exploration
SpawnKinds == {"I", "O"}

\* the clock saturates at the largest gravity interval (level 1)
MaxElapsed == interval_for_level(1)

----------------------------------------------------------------------------
(* The game held by main, and the handlers of its event loop *)

\* the Game value the variables hold
Game ==
    [ board            |-> board,
      current          |-> current,
      next             |-> next,
      score            |-> score,
      level            |-> level,
      lines_cleared    |-> lines_cleared,
      paused           |-> paused,
      game_over        |-> game_over,
      elapsed          |-> elapsed,
      gravity_interval |-> gravity_interval ]

\* the variables take the fields of g
Install(g) ==
    /\ board' = g.board
    /\ current' = g.current
    /\ next' = g.next
    /\ score' = g.score
    /\ level' = g.level
    /\ lines_cleared' = g.lines_cleared
    /\ paused' = g.paused
    /\ game_over' = g.game_over
    /\ elapsed' = g.elapsed
    /\ gravity_interval' = g.gravity_interval

\* what a lock's history keeps of the game before the event
Before(g) ==
    [ board |-> g.board, next |-> g.next, score |-> g.score, level |-> g.level,
      lines_cleared |-> g.lines_cleared,
      gravity_interval |-> g.gravity_interval ]

\* the history before any lock
NoLock ==
    [ piece   |-> ActivePiece_new("I"),
      pre     |-> Before(Game_new("I", "I")),
      written |-> EmptyBoard,
      post    |-> Game_new("I", "I") ]

\* history of a lock_piece call made with the active piece at p, which left
\* the game h: the game before the event, the board with the piece stored
\* (before line clearing) and the game after
LogLock(p, h) ==
    /\ locks' = locks + 1
    /\ lock_log' = [ piece   |-> p,
                     pre     |-> Before(Game),
                     written |-> write_piece(board, p),
                     post    |-> h ]

\* the active piece cannot descend: the next descent attempt locks it
Blocked == check_collision(board, current, 0, 1)

\* main: KeyCode::Char('p')
KeyP ==
    /\ paused' = ~paused
    /\ UNCHANGED <<board, current, next, score, level, lines_cleared, game_over,
                   gravity_interval, elapsed>>
    /\ UNCHANGED <<histVars, unitVars, loopVars>>

\* main: KeyCode::Char('r'), both branches call game.reset()
KeyR ==
    /\ \E k_next \in SpawnKinds, k_current \in SpawnKinds :
           Install(reset(Game, k_next, k_current))
    /\ locks' = 0
    /\ soft_drops' = 0
    /\ lock_log' = NoLock
    /\ UNCHANGED <<unitVars, loopVars>>

\* KeyCode::Left, had its branch only asked for a game not over
KeyLeft_while_paused ==
    /\ IF ~game_over
       THEN locks < MaxLocks /\ Install(move_left(Game))
       ELSE UNCHANGED gameVars
    /\ UNCHANGED <<histVars, unitVars, loopVars>>

\* main: KeyCode::Left
KeyLeft ==
    /\ IF ~paused /\ ~game_over
       THEN locks < MaxLocks /\ Install(move_left(Game))
       ELSE UNCHANGED gameVars
    /\ UNCHANGED <<histVars, unitVars, loopVars>>

\* main: KeyCode::Right
KeyRight ==
    /\ IF ~paused /\ ~game_over
       THEN locks < MaxLocks /\ Install(move_right(Game))
       ELSE UNCHANGED gameVars
    /\ UNCHANGED <<histVars, unitVars, loopVars>>

\* main: KeyCode::Down, move_down and then last_drop_instant = now
KeyDown ==
    /\ IF ~paused /\ ~game_over
       THEN /\ locks < MaxLocks
            /\ \E k \in SpawnKinds :
                 \E h \in {[move_down(Game, k) EXCEPT !.elapsed = 0]} :
                   /\ Install(h)
                   /\ IF Blocked
                      THEN LogLock(current, h) /\ UNCHANGED soft_drops
                      ELSE /\ soft_drops < MaxSoft
                           /\ soft_drops' = soft_drops + 1
                           /\ UNCHANGED <<locks, lock_log>>
       ELSE UNCHANGED <<gameVars, histVars>>
    /\ UNCHANGED <<unitVars, loopVars>>

\* main: KeyCode::Up
KeyUp ==
    /\ IF ~paused /\ ~game_over
       THEN locks < MaxLocks /\ Install(rotate_cw(Game))
       ELSE UNCHANGED gameVars
    /\ UNCHANGED <<histVars, unitVars, loopVars>>

\* main: KeyCode::Char('z')
KeyZ ==
    /\ IF ~paused /\ ~game_over
       THEN locks < MaxLocks /\ Install(rotate_ccw(Game))
       ELSE UNCHANGED gameVars
    /\ UNCHANGED <<histVars, unitVars, loopVars>>

\* main: KeyCode::Char(' ')
KeySpace ==
    /\ IF ~paused /\ ~game_over
       THEN /\ locks < MaxLocks
            /\ \E k \in SpawnKinds :
                 \E h \in {hard_drop(Game, k)} :
                   /\ Install(h)
                   /\ LogLock(drop_scan(board, current), h)
            /\ UNCHANGED soft_drops
       ELSE UNCHANGED <<gameVars, histVars>>
    /\ UNCHANGED <<unitVars, loopVars>>

\* main: InternalEvent::Tick, game.step()
Tick ==
    /\ IF ~paused /\ ~game_over /\ elapsed >= gravity_interval
       THEN /\ locks < MaxLocks
            /\ \E k \in SpawnKinds :
                 \E h \in {step(Game, k)} :
                   /\ Install(h)
                   /\ IF Blocked
                      THEN LogLock(current, h)
                      ELSE UNCHANGED <<locks, lock_log>>
            /\ UNCHANGED soft_drops
       ELSE /\ \E k \in SpawnKinds : Install(step(Game, k))
            /\ UNCHANGED histVars
    /\ UNCHANGED <<unitVars, loopVars>>

\* the clock advances between two events
TimePasses ==
    /\ elapsed < MaxElapsed
    /\ elapsed' = IF elapsed + ClockStep > MaxElapsed
                  THEN MaxElapsed ELSE elapsed + ClockStep
    /\ UNCHANGED <<board, current, next, score, level, lines_cleared, paused,
                   game_over, gravity_interval>>
    /\ UNCHANGED <<histVars, unitVars, loopVars>>

---------------------------------------------------------------------------------------------------------------------------------------------------
(* Games in progress.  A play is a list of placements [kind, rotation, x]: *)
(* the active piece, of that kind, is turned and shifted at its spawn      *)
(* height and hard dropped, and the random generator returns the kind that *)
(* comes into play two placements later.  Every state below is what the    *)
(* engine itself leaves after such a play from Game::new.                  *)

\* a placement of the active piece
Put(kind, r, x) == [kind |-> kind, rotation |-> r, x |-> x]

\* the active piece turned to rotation r and shifted to column x
Placed(g, r, x) == [g EXCEPT !.current.rotation = r, !.current.x = x]

\* the kind in play at placement i of play; then cur is in play and nxt next
KindAt(play, i, cur, nxt) ==
    IF i <= Len(play) THEN play[i].kind ELSE IF i = Len(play) + 1 THEN cur ELSE nxt

RECURSIVE Replay(_, _, _, _, _)
\* the game after placements i.. of play
Replay(g, play, i, cur, nxt) ==
    IF i > Len(play) THEN g
    ELSE LET h == hard_drop(Placed(g, play[i].rotation, play[i].x),
                            KindAt(play, i + 2, cur, nxt))
         IN  IF h.score >= 0 THEN Replay(h, play, i + 1, cur, nxt) ELSE h

\* five O side by side: two full rows, cleared by the fifth
TwoRows ==
    << Put("O", 0, 0 - 1), Put("O", 0, 1), Put("O", 0, 3), Put("O", 0, 5),
       Put("O", 0, 7) >>

\* the game after TwoRows was played n / 2 times from Game::new (n even), the
\* generator then returning cur and nxt: the board is empty again; the
\* q = n / 10 levels passed took five plays each, worth 300 x level
ClearedTo(n, cur, nxt) ==
    LET q == n \div 10
        r == (n % 10) \div 2
    IN  [Game_new(nxt, cur) EXCEPT
            !.lines_cleared = n,
            !.level = q + 1,
            !.score = (750 * q * (q + 1)) + (300 * r * (q + 1)),
            !.gravity_interval = interval_for_level(q + 1)]

\* the game after play, begun on the empty board of ClearedTo(n)
After(n, play, cur, nxt) ==
    Replay(ClearedTo(n, play[1].kind, play[2].kind), play, 1, cur, nxt)

\* eight O in columns 1-8 and an upright I in column 9: four rows, each full
\* but for column 0
Block ==
    << Put("O", 0, 0), Put("O", 0, 2), Put("O", 0, 4), Put("O", 0, 6),
       Put("O", 0, 0), Put("O", 0, 2), Put("O", 0, 4), Put("O", 0, 6),
       Put("I", 1, 7) >>

\* three blocks: rows 8-19 are settled, none of them full
Pile == Block \o Block \o Block

\* on the pile, two I lie in row 7: an O dropped in columns 8-9 completes row 7
\* alone (row 6 then holds columns 8-9 only)
OneRowReady(n, nxt) ==
    After(n, Pile \o << Put("I", 0, 0), Put("I", 0, 4) >>, "O", nxt)

\* the same after that O was dropped (one line more), three O were set in
\* columns 0-5 and an I was stood in column 6: an upright I dropped in
\* column 7 completes the lowest free row alone
OneRowAgain(n, nxt) ==
    After(n, Pile \o << Put("I", 0, 0), Put("I", 0, 4), Put("O", 0, 7),
                        Put("O", 0, 0 - 1), Put("O", 0, 1), Put("O", 0, 3),
                        Put("I", 1, 4) >>, "I", nxt)

\* on the pile, four O fill columns 0-7 of rows 6-7: an O dropped in columns
\* 8-9 completes both rows
TwoRowsReady(n, nxt) ==
    After(n, Pile \o << Put("O", 0, 0 - 1), Put("O", 0, 1), Put("O", 0, 3),
                        Put("O", 0, 5) >>, "O", nxt)

\* on the pile, rows 5-7 are full but for column 9 and row 4 holds column 8
\* alone: an upright I dropped in column 9 completes rows 5-7
ThreeRowsReady(n, nxt) ==
    After(n, Pile \o << Put("O", 0, 0 - 1), Put("O", 0, 1), Put("O", 0, 3),
                        Put("O", 0, 5), Put("I", 0, 0), Put("I", 0, 4),
                        Put("I", 1, 6) >>, "I", nxt)

\* on the pile, rows 4-7 are full but for column 9: an upright I dropped in
\* column 9 completes all four
FourRowsReady(n, nxt) ==
    After(n, Pile \o << Put("O", 0, 0 - 1), Put("O", 0, 1), Put("O", 0, 3),
                        Put("O", 0, 5), Put("O", 0, 0 - 1), Put("O", 0, 1),
                        Put("O", 0, 3), Put("O", 0, 5), Put("I", 1, 6) >>,
          "I", nxt)

\* nine O piled at the spawn column reach row 2: the tenth blocks the spawn
Tower(nxt) ==
    After(0, [i \in 1..9 |-> Put("O", 0, 3)], "O", nxt)

\* the games in progress the exploration starts from
Started ==
    { OneRowReady(0, "O"), OneRowAgain(8, "O"), TwoRowsReady(8, "I"),
      ThreeRowsReady(128, "O"), FourRowsReady(0, "I"), FourRowsReady(138, "O"),
      Tower("O"), Tower("I") }

\* unit specifications: no call made yet
NoCall == [done |-> FALSE, val |-> 0]

\* the game loop, where the event handlers are explored on their own: it is
\* receiving, nothing is queued
InitLoopIdle ==
    /\ queue = << >>
    /\ pc = "recv"
    /\ did_quit = FALSE
    /\ terminal = "raw"
    /\ input_asleep = FALSE
    /\ tick_asleep = FALSE
    /\ wakes = 0

InitHist ==
    /\ locks = 0
    /\ soft_drops = 0
    /\ lock_log = NoLock

InitGame(g) ==
    /\ board = g.board
    /\ current = g.current
    /\ next = g.next
    /\ score = g.score
    /\ level = g.level
    /\ lines_cleared = g.lines_cleared
    /\ paused = g.paused
    /\ game_over = g.game_over
    /\ elapsed = g.elapsed
    /\ gravity_interval = g.gravity_interval

\* a game just built by Game::new, or a game in progress
Init ==
    /\ \/ \E k_next \in SpawnKinds, k_current \in SpawnKinds :
              InitGame(Game_new(k_next, k_current))
       \/ \E g \in Started : InitGame(g)
    /\ InitHist
    /\ InitLoopIdle
    /\ fn = "game"
    /\ arg = 0
    /\ ret = NoCall

Next ==
    \/ KeyP
    \/ KeyR
    \/ KeyLeft
    \/ KeyRight
    \/ KeyDown
    \/ KeyUp
    \/ KeyZ
    \/ KeySpace
    \/ Tick
    \/ TimePasses

Spec == Init /\ [][Next]_vars

\* games in progress with each of the seven kinds in play: beside a spike one
\* column wide, on a tower under the spawn place, and on the pile
StartedKinds ==
    UNION { { After(0, << Put("I", 1, 3), Put("I", 1, 3), Put("I", 1, 3) >>, cur, "I"),
              After(0, [i \in 1..9 |-> Put("O", 0, 3)], cur, "O"),
              After(0, Pile, cur, "O") } : cur \in BlockType }

InitKinds ==
    /\ \E g \in StartedKinds : InitGame(g)
    /\ InitHist
    /\ InitLoopIdle
    /\ fn = "game"
    /\ arg = 0
    /\ ret = NoCall

\* the same events, with every kind in play
SpecKinds == InitKinds /\ [][Next]_vars

----------------------------------------------------------------------------
(* Unit specifications: one engine function applied to inputs drawn from a  *)
(* bounded family.  The game variables hold a fresh game and are not used.  *)

\* levels given to interval_for_level
MaxLevel == 60

\* full rows of a board given to clear_full_lines
MaxFull == 3

\* the game variables of a unit specification
Idle == InitGame(Game_new("I", "O")) /\ InitHist /\ InitLoopIdle

\* the result of a call
Returned(v) == [done |-> TRUE, val |-> v]

\* boards given to check_collision and to the storing loop of lock_piece
UnitBoards ==
    [ empty |-> EmptyBoard,
      tower |-> Tower("O").board,
      pile  |-> FourRowsReady(0, "I").board ]

\* every piece whose 4x4 grid overlaps or touches the board or its surroundings
UnitPieces ==
    { [kind |-> k, rotation |-> r, x |-> x, y |-> y] :
        k \in BlockType, r \in 0..3,
        x \in (0 - 4)..BOARD_WIDTH, y \in (0 - 4)..BOARD_HEIGHT }

\* ... in one of the rotations its kind has
UnitPiecesOf == {p \in UnitPieces : p.rotation < Len(rotations(p.kind))}

\* the shifts the engine asks check_collision about
UnitShifts == { <<0, 0>>, <<0 - 1, 0>>, <<1, 0>>, <<0, 1>>, <<0, 0 - 1>> }

\* a full row, its kinds depending on y
UnitFullRow(y) == [x \in 0..(BOARD_WIDTH - 1) |-> AllKinds[((x + y) % 7) + 1]]

\* a row with one hole, hole and kinds depending on y
UnitHoleRow(y) == [UnitFullRow(y) EXCEPT ![y % BOARD_WIDTH] = None]

\* the board whose rows in full are full, whose other rows are empty above
\* row top and have one hole from row top down
UnitClearBoard(full, top) ==
    [y \in 0..(BOARD_HEIGHT - 1) |->
        IF y \in full THEN UnitFullRow(y)
        ELSE IF y < top THEN EmptyRow
        ELSE UnitHoleRow(y)]

\* the sets of at most MaxFull rows
UnitFullSets ==
    {{}} \cup { {f[i] : i \in 1..MaxFull} : f \in [1..MaxFull -> 0..(BOARD_HEIGHT - 1)] }

\* fn is called once, on arg
InitInterval ==
    /\ Idle
    /\ fn = "interval_for_level"
    /\ arg \in 1..MaxLevel
    /\ ret = NoCall

CallInterval ==
    /\ fn = "interval_for_level"
    /\ ~ret.done
    /\ ret' = Returned(interval_for_level(arg))
    /\ UNCHANGED <<gameVars, histVars, loopVars, fn, arg>>

SpecInterval == InitInterval /\ [][CallInterval]_vars

InitCollide ==
    /\ Idle
    /\ fn = "check_collision"
    /\ arg \in [ board : DOMAIN UnitBoards, piece : UnitPiecesOf, shift : UnitShifts ]
    /\ ret = NoCall

CallCollide ==
    /\ fn = "check_collision"
    /\ ~ret.done
    /\ ret' = Returned(check_collision(UnitBoards[arg.board], arg.piece,
                                       arg.shift[1], arg.shift[2]))
    /\ UNCHANGED <<gameVars, histVars, loopVars, fn, arg>>

SpecCollide == InitCollide /\ [][CallCollide]_vars

InitWrite ==
    /\ Idle
    /\ fn = "lock_piece"
    /\ arg \in [ board : DOMAIN UnitBoards, piece : UnitPiecesOf ]
    /\ ret = NoCall

CallWrite ==
    /\ fn = "lock_piece"
    /\ ~ret.done
    /\ ret' = Returned(write_piece(UnitBoards[arg.board], arg.piece))
    /\ UNCHANGED <<gameVars, histVars, loopVars, fn, arg>>

SpecWrite == InitWrite /\ [][CallWrite]_vars

InitClear ==
    /\ Idle
    /\ fn = "clear_full_lines"
    /\ arg \in [ full : UnitFullSets, top : {0, 1, BOARD_HEIGHT \div 2} ]
    /\ ret = NoCall

CallClear ==
    /\ fn = "clear_full_lines"
    /\ ~ret.done
    /\ ret' = Returned(clear_full_lines(
                  [Game_new("I", "O") EXCEPT !.board = UnitClearBoard(arg.full, arg.top)]))
    /\ UNCHANGED <<gameVars, histVars, loopVars, fn, arg>>

SpecClear == InitClear /\ [][CallClear]_vars

\* games in progress given to reset: a new one, three after many rows
\* cleared, and one that is over
UnitGames ==
    << Game_new("I", "O"),
       OneRowAgain(8, "O"),
       ThreeRowsReady(128, "O"),
       FourRowsReady(138, "O"),
       hard_drop(Tower("O"), "I") >>

InitReset ==
    /\ Idle
    /\ fn = "reset"
    /\ arg \in [ game : DOMAIN UnitGames, paused : BOOLEAN,
                 k_next : BlockType, k_current : BlockType ]
    /\ ret = NoCall

CallReset ==
    /\ fn = "reset"
    /\ ~ret.done
    /\ ret' = Returned(reset([UnitGames[arg.game] EXCEPT !.paused = arg.paused],
                             arg.k_next, arg.k_current))
    /\ UNCHANGED <<gameVars, histVars, loopVars, fn, arg>>

SpecReset == InitReset /\ [][CallReset]_vars

\* games in play given to the operations on the active piece: a new one, one
\* with a tower under the spawn place, one at level 14 with a well, one with
\* a spike one column wide
UnitStarts ==
    [ empty |-> Game_new("O", "I"),
      tower |-> Tower("O"),
      pile  |-> FourRowsReady(138, "O"),
      spike |-> After(0, << Put("I", 1, 3), Put("I", 1, 3), Put("I", 1, 3) >>, "O", "I") ]

\* the places on board b a piece can have fallen to from the spawn row
UnitActive(b) ==
    UNION { { [top EXCEPT !.y = y] : y \in (0 - 1)..drop_scan(b, top).y }
            : top \in { p \in UnitPiecesOf :
                           p.y = 0 - 1 /\ ~check_collision(b, p, 0, 0) } }

\* the inputs of an operation on the active piece: a game, its piece and the
\* kind the generator returns if the operation locks
UnitMoves ==
    UNION { [ start : {n}, piece : UnitActive(UnitStarts[n].board), k : SpawnKinds ]
            : n \in DOMAIN UnitStarts }

\* the game an input describes
UnitGame(a) == [UnitStarts[a.start] EXCEPT !.current = a.piece]

InitMoveDown ==
    /\ Idle
    /\ fn = "move_down"
    /\ arg \in UnitMoves
    /\ ret = NoCall

CallMoveDown ==
    /\ fn = "move_down"
    /\ ~ret.done
    /\ ret' = Returned(move_down(UnitGame(arg), arg.k))
    /\ UNCHANGED <<gameVars, histVars, loopVars, fn, arg>>

SpecMoveDown == InitMoveDown /\ [][CallMoveDown]_vars

InitHardDrop ==
    /\ Idle
    /\ fn = "hard_drop"
    /\ arg \in UnitMoves
    /\ ret = NoCall

CallHardDrop ==
    /\ fn = "hard_drop"
    /\ ~ret.done
    /\ ret' = Returned(hard_drop(UnitGame(arg), arg.k))
    /\ UNCHANGED <<gameVars, histVars, loopVars, fn, arg>>

SpecHardDrop == InitHardDrop /\ [][CallHardDrop]_vars

\* the inputs of an operation that cannot lock: a game and its piece
UnitPlaces ==
    UNION { [ start : {n}, piece : UnitActive(UnitStarts[n].board) ]
            : n \in DOMAIN UnitStarts }

InitRotate ==
    /\ Idle
    /\ fn \in {"rotate_cw", "rotate_ccw"}
    /\ arg \in UnitPlaces
    /\ ret = NoCall

CallRotateCw ==
    /\ fn = "rotate_cw"
    /\ ~ret.done
    /\ ret' = Returned(rotate_cw(UnitGame(arg)))
    /\ UNCHANGED <<gameVars, histVars, loopVars, fn, arg>>

CallRotateCcw ==
    /\ fn = "rotate_ccw"
    /\ ~ret.done
    /\ ret' = Returned(rotate_ccw(UnitGame(arg)))
    /\ UNCHANGED <<gameVars, histVars, loopVars, fn, arg>>

SpecRotate == InitRotate /\ [][CallRotateCw \/ CallRotateCcw]_vars

InitShift ==
    /\ Idle
    /\ fn \in {"move_left", "move_right"}
    /\ arg \in UnitPlaces
    /\ ret = NoCall

CallMoveLeft ==
    /\ fn = "move_left"
    /\ ~ret.done
    /\ ret' = Returned(move_left(UnitGame(arg)))
    /\ UNCHANGED <<gameVars, histVars, loopVars, fn, arg>>

CallMoveRight ==
    /\ fn = "move_right"
    /\ ~ret.done
    /\ ret' = Returned(move_right(UnitGame(arg)))
    /\ UNCHANGED <<gameVars, histVars, loopVars, fn, arg>>

SpecShift == InitShift /\ [][CallMoveLeft \/ CallMoveRight]_vars

\* the inputs of a gravity tick: a game, its piece and the time since the
\* last drop: none, just short of the interval, the interval, and more
UnitTicks ==
    UNION { [ start   : {n},
              piece   : UnitActive(UnitStarts[n].board),
              elapsed : { 0,
                          UnitStarts[n].gravity_interval - 1,
                          UnitStarts[n].gravity_interval,
                          UnitStarts[n].gravity_interval + ClockStep } ]
            : n \in DOMAIN UnitStarts }

\* the game an input of a tick describes
UnitTickGame(a) == [UnitGame(a) EXCEPT !.elapsed = a.elapsed]

InitStep ==
    /\ Idle
    /\ fn = "step"
    /\ arg \in UnitTicks
    /\ ret = NoCall

CallStep ==
    /\ fn = "step"
    /\ ~ret.done
    /\ \E k \in SpawnKinds : ret' = Returned(step(UnitTickGame(arg), k))
    /\ UNCHANGED <<gameVars, histVars, loopVars, fn, arg>>

SpecStep == InitStep /\ [][CallStep]_vars

\* the places on board b where a piece rests: its next descent locks it
UnitResting(b) ==
    { drop_scan(b, top) :
        top \in { p \in UnitPiecesOf : p.y = 0 - 1 /\ ~check_collision(b, p, 0, 0) } }

\* the inputs of a lock: a game with a tower or a pile, its piece at rest, its
\* next kind, and the kind the generator returns
UnitLocks ==
    UNION { [ start : {n}, piece : UnitResting(UnitStarts[n].board),
              next : BlockType, k : BlockType ]
            : n \in {"tower", "pile"} }

\* the game an input of a lock describes, a gravity tick being due
UnitLockGame(a) ==
    [UnitGame(a) EXCEPT !.next = a.next, !.elapsed = UnitGame(a).gravity_interval]

InitLock ==
    /\ Idle
    /\ fn \in {"move_down", "hard_drop", "step"}
    /\ arg \in UnitLocks
    /\ ret = NoCall

CallLock ==
    /\ ~ret.done
    /\ ret' = Returned(CASE fn = "move_down" -> move_down(UnitLockGame(arg), arg.k)
                         [] fn = "hard_drop" -> hard_drop(UnitLockGame(arg), arg.k)
                         [] fn = "step"      -> step(UnitLockGame(arg), arg.k))
    /\ UNCHANGED <<gameVars, histVars, loopVars, fn, arg>>

SpecLock == InitLock /\ [][CallLock]_vars

\* turns applied to one piece in a row
MaxTurns == 4

\* a piece of every kind in every rotation it has, turned again and again;
\* ret.val keeps the piece and the turns made so far
InitTurn ==
    /\ Idle
    /\ fn = "ActivePiece::rotate"
    /\ arg \in { [ActivePiece_new(k) EXCEPT !.rotation = r] :
                    k \in BlockType, r \in 0..3 }
    /\ arg.rotation < Len(rotations(arg.kind))
    /\ ret = [done |-> FALSE, val |-> [piece |-> arg, turns |-> << >>]]

TurnCw ==
    /\ fn = "ActivePiece::rotate"
    /\ Len(ret.val.turns) < MaxTurns
    /\ ret' = Returned([ piece |-> ActivePiece_rotate_cw(ret.val.piece),
                         turns |-> Append(ret.val.turns, "cw") ])
    /\ UNCHANGED <<gameVars, histVars, loopVars, fn, arg>>

TurnCcw ==
    /\ fn = "ActivePiece::rotate"
    /\ Len(ret.val.turns) < MaxTurns
    /\ ret' = Returned([ piece |-> ActivePiece_rotate_ccw(ret.val.piece),
                         turns |-> Append(ret.val.turns, "ccw") ])
    /\ UNCHANGED <<gameVars, histVars, loopVars, fn, arg>>

SpecTurn == InitTurn /\ [][TurnCw \/ TurnCcw]_vars

-----------------------------------------------------------------------------
(* main: the two producer threads and the game loop.  The channel of       *)
(* mpsc::channel is unbounded and first-in first-out.  Each producer       *)
(* sleeps after every round (10 ms the input thread, 20 ms the tick        *)
(* thread), and handling one event takes the loop far less than that, so   *)
(* only a few producer sleeps can end while the loop drains the channel:   *)
(* wakes counts them and MaxWakes caps them.  Once the loop has returned   *)
(* the process exits and the producers with it.                            *)

MaxQueue == 3

MaxWakes == 2

\* the keys that the input thread reads
Keys == {"q", "p"}

NoKey == "none"

InitLoop ==
    /\ InitGame(Game_new("I", "O"))
    /\ InitHist
    /\ fn = "main"
    /\ arg = 0
    /\ ret = NoCall
    /\ queue = << >>
    /\ pc = "draw"
    /\ did_quit = FALSE
    /\ terminal = "raw"
    /\ input_asleep = FALSE
    /\ tick_asleep = FALSE
    /\ wakes = 0

\* input thread, one round: event::poll times out or a key is read and sent,
\* then thread::sleep
InputRound ==
    /\ pc # "returned"
    /\ ~input_asleep
    /\ \E k \in Keys \cup {NoKey} :
          IF k = NoKey
          THEN UNCHANGED queue
          ELSE /\ Len(queue) < MaxQueue
               /\ queue' = Append(queue, k)
    /\ input_asleep' = TRUE
    /\ UNCHANGED <<pc, did_quit, terminal, tick_asleep, wakes>>
    /\ UNCHANGED <<gameVars, histVars, unitVars>>

\* tick thread, one round: Tick is sent, then thread::sleep
TickRound ==
    /\ pc # "returned"
    /\ ~tick_asleep
    /\ Len(queue) < MaxQueue
    /\ queue' = Append(queue, "Tick")
    /\ tick_asleep' = TRUE
    /\ UNCHANGED <<pc, did_quit, terminal, input_asleep, wakes>>
    /\ UNCHANGED <<gameVars, histVars, unitVars>>

\* the thread::sleep of a producer ends
SleepEnds ==
    /\ pc # "returned"
    /\ \/ input_asleep /\ input_asleep' = FALSE /\ UNCHANGED tick_asleep
       \/ tick_asleep /\ tick_asleep' = FALSE /\ UNCHANGED input_asleep
    /\ IF pc = "recv"
       THEN wakes < MaxWakes /\ wakes' = wakes + 1
       ELSE UNCHANGED wakes
    /\ UNCHANGED <<queue, pc, did_quit, terminal>>
    /\ UNCHANGED <<gameVars, histVars, unitVars>>

\* game loop: terminal.draw and let mut did_quit = false
Draw ==
    /\ pc = "draw"
    /\ did_quit' = FALSE
    /\ wakes' = 0
    /\ pc' = "recv"
    /\ UNCHANGED <<queue, terminal, input_asleep, tick_asleep>>
    /\ UNCHANGED <<gameVars, histVars, unitVars>>

\* the match on a received event, as far as the game goes
Dispatch(ev) ==
    CASE ev = "p"    -> /\ paused' = ~paused
                        /\ UNCHANGED <<board, current, next, score, level,
                                       lines_cleared, game_over,
                                       gravity_interval, elapsed>>
      [] ev = "Tick" -> \E k \in SpawnKinds : Install(step(Game, k))
      [] OTHER       -> UNCHANGED gameVars

\* Recv where every received event assigns did_quit
Recv_last_event_decides ==
    /\ pc = "recv"
    /\ IF queue # << >>
       THEN /\ queue' = Tail(queue)
            /\ did_quit' = (Head(queue) = "q")
            /\ Dispatch(Head(queue))
            /\ UNCHANGED pc
       ELSE /\ pc' = "check"
            /\ UNCHANGED <<queue, did_quit, gameVars>>
    /\ UNCHANGED <<terminal, input_asleep, tick_asleep, wakes>>
    /\ UNCHANGED <<histVars, unitVars>>

\* game loop: one rx.try_recv of the while let; Ok(ev) is handled and the
\* loop receives again, Err ends the draining
Recv ==
    /\ pc = "recv"
    /\ IF queue # << >>
       THEN /\ queue' = Tail(queue)
            /\ did_quit' = (did_quit \/ Head(queue) = "q")
            /\ Dispatch(Head(queue))
            /\ UNCHANGED pc
       ELSE /\ pc' = "check"
            /\ UNCHANGED <<queue, did_quit, gameVars>>
    /\ UNCHANGED <<terminal, input_asleep, tick_asleep, wakes>>
    /\ UNCHANGED <<histVars, unitVars>>

\* game loop: if did_quit, the terminal is restored and the loop breaks
Check ==
    /\ pc = "check"
    /\ IF did_quit
       THEN terminal' = "restored" /\ pc' = "returned"
       ELSE UNCHANGED terminal /\ pc' = "sleep"
    /\ UNCHANGED <<queue, did_quit, input_asleep, tick_asleep, wakes>>
    /\ UNCHANGED <<gameVars, histVars, unitVars>>

\* game loop: the rest of the 16 ms frame is slept
Frame ==
    /\ pc = "sleep"
    /\ pc' = "draw"
    /\ UNCHANGED <<queue, did_quit, terminal, input_asleep, tick_asleep, wakes>>
    /\ UNCHANGED <<gameVars, histVars, unitVars>>

NextLoop ==
    \/ InputRound
    \/ TickRound
    \/ SleepEnds
    \/ Draw
    \/ Recv
    \/ Check
    \/ Frame

\* the main thread is never stopped for ever; nothing is asked of the producers
SpecLoop ==
    /\ InitLoop
    /\ [][NextLoop]_vars
    /\ WF_vars(Draw)
    /\ WF_vars(Recv)
    /\ WF_vars(Check)
    /\ WF_vars(Frame)

----------------------------------------------------------------------------
(* Properties of the game *)

\* the rows of board b that have no empty cell
FullRows(b) ==
    {y \in 0..(BOARD_HEIGHT - 1) : \A x \in 0..(BOARD_WIDTH - 1) : b[y][x] # None}

\* the points of the specification for n rows cleared at once
Award(n) == IF n = 1 THEN 100 ELSE IF n = 2 THEN 300 ELSE IF n = 3 THEN 500 ELSE 800

\* C1: a lock that clears n >= 1 rows adds Award(n) times the level in effect
\* before the lock to the score, and a lock that clears no row leaves score,
\* lines cleared and level as they were
LockAward ==
    locks > 0 =>
        LET n   == Cardinality(FullRows(lock_log.written))
            was == lock_log.pre
            now == lock_log.post
        IN  /\ n >= 1 => now.score = was.score + (was.level * Award(n))
            /\ n = 0 => /\ now.score = was.score
                        /\ now.lines_cleared = was.lines_cleared
                        /\ now.level = was.level

\* a lock at level 14 cleared four rows and was awarded 14 * 800 points
LockAwardSeen ==
    /\ locks > 0
    /\ Cardinality(FullRows(lock_log.written)) = 4
    /\ lock_log.pre.level = 14
    /\ lock_log.post.score = lock_log.pre.score + 11200

\* C2: the level always equals lines cleared divided by ten (integer
\* division) plus one
LevelFromLines == level = (lines_cleared \div 10) + 1

\* a lock took the lines cleared from 9 to 10 and the level to 2
LevelFromLinesSeen ==
    /\ locks > 0
    /\ lock_log.pre.lines_cleared = 9
    /\ lines_cleared = 10
    /\ level = 2

NeverDecrease ==
    [][KeyR \/ (/\ score' >= score
                /\ lines_cleared' >= lines_cleared
                /\ level' >= level)]_vars

\* a soft drop and a line-clearing lock at level 13 have raised all three
NeverDecreaseSeen ==
    /\ soft_drops > 0
    /\ locks > 0
    /\ lock_log.pre.level = 13
    /\ score > lock_log.pre.score
    /\ lines_cleared > lock_log.pre.lines_cleared
    /\ level > lock_log.pre.level

\* C9: the game is over exactly when the last lock of the game spawned, at
\* x = 3, y = -1, rotation 0, a piece whose cells collide with the board; a
\* game without a lock, or whose last spawn did not collide, is not over
GameOverBySpawn ==
    /\ game_over <=> (locks > 0 /\ check_collision(lock_log.post.board,
                                                   lock_log.post.current, 0, 0))
    /\ locks > 0 =>
          /\ lock_log.post.current =
                 [kind |-> lock_log.pre.next, rotation |-> 0, x |-> 3, y |-> 0 - 1]
          /\ lock_log.post.game_over <=> game_over

\* a lock spawned a piece onto settled cells and the game is over
GameOverBySpawnSeen ==
    /\ game_over
    /\ locks > 0
    /\ current = ActivePiece_new(lock_log.pre.next)
    /\ \E c \in 1..Len(cells(current)) :
          /\ cells(current)[c][2] >= 0
          /\ board[cells(current)[c][2]][cells(current)[c][1]] # None

\* C10: once the game is over, every event other than a reset leaves board,
\* active piece, next piece, score, level, lines cleared and gravity interval
\* unchanged, and the game stays over
GameOverFrozen ==
    [][game_over =>
          \/ KeyR
          \/ /\ UNCHANGED <<board, current, next, score, level, lines_cleared,
                            gravity_interval>>
             /\ game_over']_vars

\* events (a pause toggle, time passing) were handled after the game ended
GameOverFrozenSeen == game_over /\ paused /\ elapsed >= gravity_interval

\* C11: while the game is paused or over, the commands move left, move right,
\* soft drop, hard drop, both rotations and the gravity tick leave the whole
\* game state as it is (the drop timer is not reset either); only the pause
\* toggle and reset have an effect
HaltedNoOps ==
    [][(paused \/ game_over) =>
          \/ KeyP
          \/ KeyR
          \/ /\ UNCHANGED <<board, current, next, score, level, lines_cleared,
                            paused, game_over, gravity_interval>>
             /\ elapsed' >= elapsed]_vars

\* a paused game in play whose piece could move left, right and down, with a
\* gravity tick due
HaltedNoOpsSeen ==
    /\ paused
    /\ ~game_over
    /\ elapsed >= gravity_interval
    /\ ~check_collision(board, current, 0 - 1, 0)
    /\ ~check_collision(board, current, 1, 0)
    /\ ~Blocked
    /\ current.y > 0

----------------------------------------------------------------------------
(* Properties of the engine functions *)

\* the settled cells of board b
Settled(b) ==
    {c \in (0..(BOARD_WIDTH - 1)) \X (0..(BOARD_HEIGHT - 1)) : b[c[2]][c[1]] # None}

\* the cells <<x, y>> a piece occupies, read off the 4x4 grid of its rotation
Occupied(piece) ==
    LET grid == rotations(piece.kind)[piece.rotation + 1]
    IN  { <<piece.x + o[1], piece.y + o[2]>> :
            o \in { o \in (0..3) \X (0..3) : grid[(o[2] * 4) + o[1] + 1] = 1 } }

ClearKeepsOrder ==
    (fn = "clear_full_lines" /\ ret.done) =>
        LET b       == UnitClearBoard(arg.full, arg.top)
            nb      == ret.val.board
            full    == FullRows(b)
            removed == Cardinality(full)
        IN  /\ \A y \in 0..(BOARD_HEIGHT - 1) :
                  y \notin full =>
                      nb[y + Cardinality({f \in full : f > y})] = b[y]
            /\ \A y \in 0..(BOARD_HEIGHT - 1) : y < removed => nb[y] = EmptyRow
            /\ Cardinality(Settled(nb)) = Cardinality(Settled(b)) - (10 * removed)

\* three full rows, not adjacent, were removed from a board with rows between
ClearKeepsOrderSeen ==
    /\ fn = "clear_full_lines"
    /\ ret.done
    /\ arg.full = {4, 12, 19}
    /\ arg.top = 1
    /\ ret.val.lines_cleared = 3
    /\ ret.val.board[19] = UnitHoleRow(18)
    /\ ret.val.board[2] = EmptyRow

\* C7: check_collision is true iff some occupied cell, shifted by (dx, dy), has
\* a column below 0 or of 10 or more, or a row of 20 or more, or lies on a
\* settled cell in a row of 0 or more; a cell above the board never collides
CollisionIff ==
    (fn = "check_collision" /\ ret.done) =>
        LET b == UnitBoards[arg.board]
        IN  ret.val <=>
                \E c \in Occupied(arg.piece) :
                    LET nx == c[1] + arg.shift[1]
                        ny == c[2] + arg.shift[2]
                    IN  \/ nx < 0
                        \/ nx >= 10
                        \/ ny >= 20
                        \/ (ny >= 0 /\ b[ny][nx] # None)

\* a piece partly above the board, inside the columns, shifted onto a free
\* place next to settled cells: no collision
CollisionIffSeen ==
    /\ fn = "check_collision"
    /\ ret.done
    /\ ~ret.val
    /\ arg.board = "tower"
    /\ arg.shift = <<1, 0>>
    /\ \E c \in Occupied(arg.piece) : c[2] < 0
    /\ \E c \in Occupied(arg.piece) : c[1] + 1 = 6 /\ c[2] = 2

\* C8: locking writes the piece's kind into exactly those of its cells with
\* 0 <= y < 20 and 0 <= x < 10 and changes no other cell; a piece wholly on
\* the board and on no settled cell adds four settled cells
LockWritesCells ==
    (fn = "lock_piece" /\ ret.done) =>
        LET b      == UnitBoards[arg.board]
            nb     == ret.val
            inside == {c \in Occupied(arg.piece) :
                          c[1] >= 0 /\ c[1] < 10 /\ c[2] >= 0 /\ c[2] < 20}
        IN  /\ \A y \in 0..(BOARD_HEIGHT - 1), x \in 0..(BOARD_WIDTH - 1) :
                  nb[y][x] = IF <<x, y>> \in inside THEN arg.piece.kind ELSE b[y][x]
            /\ (inside = Occupied(arg.piece) /\ inside \cap Settled(b) = {}) =>
                  Cardinality(Settled(nb)) = Cardinality(Settled(b)) + 4

\* a piece with cells above row 0 was locked: only its cells on the board
\* were written
LockWritesCellsSeen ==
    /\ fn = "lock_piece"
    /\ ret.done
    /\ arg.board = "pile"
    /\ arg.piece.kind = "T"
    /\ \E c \in Occupied(arg.piece) : c[2] < 0
    /\ Cardinality(Settled(ret.val)) = Cardinality(Settled(UnitBoards["pile"])) + 3

\* C12: reset, from an active, a paused or a finished game, gives an empty
\* board, score 0, level 1, no lines cleared, neither paused nor over, a
\* gravity interval of 700 ms, the newly chosen current kind at x = 3, y = -1
\* in rotation 0, and the newly chosen next kind
ResetFresh ==
    (fn = "reset" /\ ret.done) =>
        /\ \A y \in 0..(BOARD_HEIGHT - 1), x \in 0..(BOARD_WIDTH - 1) :
              ret.val.board[y][x] = None
        /\ ret.val.score = 0
        /\ ret.val.level = 1
        /\ ret.val.lines_cleared = 0
        /\ ~ret.val.paused
        /\ ~ret.val.game_over
        /\ ret.val.gravity_interval = 700
        /\ ret.val.current =
               [kind |-> arg.k_current, rotation |-> 0, x |-> 3, y |-> 0 - 1]
        /\ ret.val.next = arg.k_next

\* a game that was over and paused, with settled cells, was reset
ResetFreshSeen ==
    /\ fn = "reset"
    /\ ret.done
    /\ UnitGames[arg.game].game_over
    /\ arg.paused
    /\ Settled(UnitGames[arg.game].board) # {}
    /\ Settled(ret.val.board) = {}
    /\ ~ret.val.game_over

\* the collision rule: some cell of the piece, shifted by (dx, dy), is outside
\* the walls, below the floor, or on a settled cell
Collides(b, piece, dx, dy) ==
    \E c \in Occupied(piece) :
        \/ c[1] + dx < 0
        \/ c[1] + dx >= 10
        \/ c[2] + dy >= 20
        \/ (c[2] + dy >= 0 /\ b[c[2] + dy][c[1] + dx] # None)

\* board b with the cells of the piece stored
Stored(b, piece) ==
    LET occupied == Occupied(piece)
    IN  [y \in 0..(BOARD_HEIGHT - 1) |->
            [x \in 0..(BOARD_WIDTH - 1) |->
                IF <<x, y>> \in occupied THEN piece.kind ELSE b[y][x]]]

\* board b without its full rows: every other row sinks by the number of full
\* rows below it
RemoveFull(b) ==
    LET full     == FullRows(b)
        sunk(s)  == s + Cardinality({f \in full : f > s})
        kept     == (0..(BOARD_HEIGHT - 1)) \ full
    IN  IF full = {} THEN b
        ELSE [y \in 0..(BOARD_HEIGHT - 1) |->
                 IF \E s \in kept : sunk(s) = y
                 THEN b[CHOOSE s \in kept : sunk(s) = y]
                 ELSE [x \in 0..(BOARD_WIDTH - 1) |-> None]]

\* the game g after its active piece was locked where it is, as the
\* specification describes a lock (the kind drawn for next left open)
IsLockOf(h, g) ==
    LET stored == Stored(g.board, g.current)
        n      == Cardinality(FullRows(stored))
    IN  /\ h.board = RemoveFull(stored)
        /\ h.score = g.score + (IF n = 0 THEN 0 ELSE g.level * Award(n))
        /\ h.lines_cleared = g.lines_cleared + n
        /\ h.current = [kind |-> g.next, rotation |-> 0, x |-> 3, y |-> 0 - 1]

\* C13: in an active game a soft drop either moves the piece down exactly one
\* row and adds exactly 1 to the score, with board, lines and level unchanged
\* (the cells one row lower do not collide), or, blocked, locks the piece at
\* its current position at once and adds no soft-drop point
SoftDrop ==
    (fn = "move_down" /\ ret.done) =>
        LET g == UnitGame(arg)
            h == ret.val
        IN  IF ~Collides(g.board, g.current, 0, 1)
            THEN /\ h.current = [g.current EXCEPT !.y = g.current.y + 1]
                 /\ h.score = g.score + 1
                 /\ h.board = g.board
                 /\ h.lines_cleared = g.lines_cleared
                 /\ h.level = g.level
            ELSE IsLockOf(h, g)

\* a soft drop of a piece standing in the well of the pile locked it and
\* cleared rows, with no point for the drop itself
SoftDropSeen ==
    /\ fn = "move_down"
    /\ ret.done
    /\ arg.start = "pile"
    /\ Collides(UnitGame(arg).board, arg.piece, 0, 1)
    /\ ret.val.lines_cleared = UnitGame(arg).lines_cleared + 4
    /\ ret.val.score = UnitGame(arg).score + 11200

\* k is the greatest number of rows the piece can descend on board b one row
\* at a time: the translations by 1..k are free and the next one collides
GreatestFall(b, piece, k) ==
    /\ Collides(b, piece, 0, k + 1)
    /\ \A i \in 1..k : ~Collides(b, piece, 0, i)

\* C14: in an active game hard_drop returns, having locked the piece moved
\* down by the greatest k >= 0 for which the translations by 1..k are all free
\* of collision, x and rotation unchanged; the score changes by the line-clear
\* award of that lock only, with nothing for the rows descended
HardDrop ==
    (fn = "hard_drop" /\ ret.done) =>
        LET g == UnitGame(arg)
        IN  \E k \in 0..BOARD_HEIGHT :
                /\ GreatestFall(g.board, g.current, k)
                /\ IsLockOf(ret.val, [g EXCEPT !.current.y = g.current.y + k])

\* a piece was dropped from the spawn row of an empty board onto the floor,
\* and the score did not change
HardDropSeen ==
    /\ fn = "hard_drop"
    /\ ret.done
    /\ arg.start = "empty"
    /\ arg.piece.kind = "L"
    /\ arg.piece.y = 0 - 1
    /\ \E c \in Settled(ret.val.board) : c[2] = 19
    /\ Cardinality(Settled(ret.val.board)) = 4
    /\ ret.val.score = UnitGame(arg).score

\* the piece turned once, clockwise or not, where it is
Turned(piece, clockwise) ==
    LET n == Len(rotations(piece.kind))
    IN  [piece EXCEPT !.rotation = IF clockwise THEN (piece.rotation + 1) % n
                                   ELSE (piece.rotation + n - 1) % n]

\* C15: rotate_cw and rotate_ccw try the turned piece at the offsets (0,0),
\* (-1,0), (+1,0), (0,-1) in this order and commit the turn together with the
\* first offset that does not collide; if all four collide, the piece and the
\* rest of the state are unchanged
RotateKicks ==
    (fn \in {"rotate_cw", "rotate_ccw"} /\ ret.done) =>
        LET g == UnitGame(arg)
            b == g.board
            t == Turned(g.current, fn = "rotate_cw")
            at(dx, dy) == [t EXCEPT !.x = t.x + dx, !.y = t.y + dy]
        IN  ret.val =
                [g EXCEPT !.current =
                    IF ~Collides(b, t, 0, 0) THEN at(0, 0)
                    ELSE IF ~Collides(b, t, 0 - 1, 0) THEN at(0 - 1, 0)
                    ELSE IF ~Collides(b, t, 1, 0) THEN at(1, 0)
                    ELSE IF ~Collides(b, t, 0, 0 - 1) THEN at(0, 0 - 1)
                    ELSE g.current]

\* a turn that collided in place, to the left and to the right was committed
\* one row up
RotateKicksSeen ==
    /\ fn = "rotate_cw"
    /\ ret.done
    /\ LET t == Turned(arg.piece, TRUE)
           b == UnitGame(arg).board
       IN  /\ Collides(b, t, 0, 0)
           /\ Collides(b, t, 0 - 1, 0)
           /\ Collides(b, t, 1, 0)
           /\ ret.val.current = [t EXCEPT !.y = t.y - 1]

\* C16: in an active game move_left / move_right changes the x of the active
\* piece by exactly -1 / +1 when the shifted cells do not collide, and
\* otherwise leaves the whole state unchanged; y, rotation, board, score,
\* level, lines and flags are unchanged in both cases
ShiftOrStay ==
    (fn \in {"move_left", "move_right"} /\ ret.done) =>
        LET g  == UnitGame(arg)
            dx == IF fn = "move_left" THEN 0 - 1 ELSE 1
        IN  IF ~Collides(g.board, g.current, dx, 0)
            THEN /\ ret.val.current.x = g.current.x + dx
                 /\ ret.val.current.y = g.current.y
                 /\ ret.val.current.rotation = g.current.rotation
                 /\ ret.val.current.kind = g.current.kind
                 /\ [ret.val EXCEPT !.current = g.current] = g
            ELSE ret.val = g

\* a move to the right was rejected by settled cells, not by the wall, and
\* the game is as it was
ShiftOrStaySeen ==
    /\ fn = "move_right"
    /\ ret.done
    /\ \A c \in Occupied(arg.piece) : c[1] + 1 < 10
    /\ Collides(UnitGame(arg).board, arg.piece, 1, 0)
    /\ ~Collides(UnitGame(arg).board, arg.piece, 0 - 1, 0)
    /\ ret.val = UnitGame(arg)

\* C17: a gravity tick in an active game does nothing unless the gravity
\* interval has elapsed since the last drop; when due, it moves the piece down
\* exactly one row, with no score, if the lower position does not collide, and
\* otherwise locks the piece and spawns the next one; in both due cases the
\* drop timer is reset
GravityTick ==
    (fn = "step" /\ ret.done) =>
        LET g == UnitTickGame(arg)
            h == ret.val
        IN  IF g.elapsed < g.gravity_interval
            THEN h = g
            ELSE IF ~Collides(g.board, g.current, 0, 1)
                 THEN h = [g EXCEPT !.current.y = g.current.y + 1, !.elapsed = 0]
                 ELSE IsLockOf(h, g) /\ h.elapsed = 0

\* a tick that came exactly when the 60 ms interval of level 14 had elapsed
\* moved the piece one row down and reset the timer
GravityTickSeen ==
    /\ fn = "step"
    /\ ret.done
    /\ arg.start = "pile"
    /\ arg.elapsed = 60
    /\ ret.val.current.y = arg.piece.y + 1
    /\ ret.val.elapsed = 0
    /\ ret.val.score = UnitGame(arg).score

\* C18: after every lock, from a soft drop, a hard drop or gravity, the new
\* active piece has the kind that was next before the lock, rotation 0 and
\* position x = 3, y = -1, and next is the kind newly chosen among the seven
SpawnAfterLock ==
    (fn \in {"move_down", "hard_drop", "step"} /\ ret.done) =>
        /\ ret.val.current =
               [kind |-> arg.next, rotation |-> 0, x |-> 3, y |-> 0 - 1]
        /\ ret.val.next = arg.k
        /\ arg.k \in {"I", "O", "T", "S", "Z", "J", "L"}

\* gravity locked an L piece lying on its side: the T that was next is the
\* active piece at the spawn place and the drawn S is next
SpawnAfterLockSeen ==
    /\ fn = "step"
    /\ ret.done
    /\ arg.piece.kind = "L"
    /\ arg.piece.rotation = 1
    /\ arg.next = "T"
    /\ arg.k = "S"
    /\ ret.val.current = [kind |-> "T", rotation |-> 0, x |-> 3, y |-> 0 - 1]
    /\ ret.val.next = "S"
    /\ Settled(ret.val.board) # Settled(UnitGame(arg).board)

\* C19: for a kind with n rotations (n = 1, 2 or 4), ActivePiece::rotate_cw
\* and rotate_ccw keep the rotation index in [0, n) and wrap at both ends
\* (n - 1 to 0 clockwise, 0 to n - 1 counter-clockwise): after any turns the
\* index is the start plus the clockwise minus the counter-clockwise turns,
\* modulo n, so two rotate_cw and then two rotate_ccw give back the start
TurnWraps ==
    fn = "ActivePiece::rotate" =>
        LET n     == Len(rotations(arg.kind))
            turns == ret.val.turns
            cw    == Cardinality({i \in 1..Len(turns) : turns[i] = "cw"})
            ccw   == Cardinality({i \in 1..Len(turns) : turns[i] = "ccw"})
            now   == ret.val.piece.rotation
        IN  /\ n \in {1, 2, 4}
            /\ now >= 0
            /\ now < n
            /\ now = (arg.rotation + cw + ((n - 1) * ccw)) % n
            /\ (turns = <<"cw">> /\ arg.rotation = n - 1) => now = 0
            /\ (turns = <<"ccw">> /\ arg.rotation = 0) => now = n - 1
            /\ turns = <<"cw", "cw", "ccw", "ccw">> => now = arg.rotation

\* a T piece in its last rotation was turned clockwise twice, through 0, and
\* back twice, through 0 again, and is in its last rotation
TurnWrapsSeen ==
    /\ fn = "ActivePiece::rotate"
    /\ arg.kind = "T"
    /\ arg.rotation = 3
    /\ ret.val.turns = <<"cw", "cw", "ccw", "ccw">>
    /\ ret.val.piece.rotation = 3

PieceInside ==
    \A c \in Occupied(current) :
        /\ c[1] >= 0
        /\ c[1] < 10
        /\ c[2] < 20
        /\ (~game_over /\ c[2] >= 0) => board[c[2]][c[1]] = None

\* a turned T piece in play stands against the left wall, on settled cells
\* and beside settled cells
PieceInsideSeen ==
    /\ ~game_over
    /\ locks = 0
    /\ current.kind = "T"
    /\ current.rotation # 0
    /\ \E c \in Occupied(current) : c[1] = 0
    /\ \E c \in Occupied(current) :
           c[2] >= 0 /\ c[2] < 19 /\ board[c[2] + 1][c[1]] # None
    /\ \E c \in Occupied(current) :
           c[2] >= 0 /\ c[1] < 9 /\ board[c[2]][c[1] + 1] # None

\* C22: in every state between two events no row of the board has all its 10
\* cells settled; so the piece a lock stores completes at most 4 rows, and
\* the lock adds exactly the number of rows it completed, at most 4, to the
\* lines cleared
NoFullRow ==
    /\ FullRows(board) = {}
    /\ locks > 0 =>
           LET n == Cardinality(FullRows(lock_log.written))
           IN  /\ FullRows(lock_log.pre.board) = {}
               /\ n <= 4
               /\ lock_log.post.lines_cleared = lock_log.pre.lines_cleared + n
               /\ FullRows(lock_log.post.board) = {}

\* an upright I was locked and completed four rows at once: none of them is
\* left on the board and the lines cleared grew by four
NoFullRowSeen ==
    /\ locks > 0
    /\ lock_log.piece.kind = "I"
    /\ Cardinality(FullRows(lock_log.written)) = 4
    /\ lines_cleared = lock_log.pre.lines_cleared + 4
    /\ Settled(board) # {}
    /\ FullRows(board) = {}

====
